---- MODULE Spec2Model ----
(***************************************************************************)
(* Model of the Azure OpenAI provider adapter of marvin                    *)
(* (src/marvin/core/ChatCompletion/providers/azure/openai/__init__.py)     *)
(* and of the knowledge-refresh flow (cookbook/flows/refresh_vectorstore). *)
(*                                                                         *)
(* Three specifications share the module:                                  *)
(*   Spec         configuration resolution of ChatCompletionSettings       *)
(*   SpecResponse response normalisation of ChatResponse                   *)
(*   SpecFlow     the update_marvin_knowledge flow                         *)
(***************************************************************************)
EXTENDS Integers, Sequences, FiniteSets, TLC

VARIABLES
    settings,            \* marvin.settings, the process-wide settings object
    openai_api_key,      \* marvin.openai.api_key, the key on the global client
    environ,             \* os.environ, restricted to the two key variables
    imported,            \* has the provider module's body been executed
    ChatRequest_config,  \* ChatRequest._config, built while the module loads
    cfg,                 \* the ChatCompletionSettings(**kwargs) call under study
    raw,                 \* ChatResponse.raw, the vendor response
    message_out,         \* outcome of reading ChatResponse.message
    function_call_out,   \* outcome of ChatResponse.function_call()
    fpc,                 \* position of the update_marvin_knowledge flow
    tasks,               \* state of each mapped run_loader task run
    awaited,             \* number of futures whose result() has returned
    documents,           \* the documents gathered by the flow
    collection,          \* content of the Chroma collection
    flow_log             \* the chroma calls the flow has made, in order

svars == <<settings, openai_api_key, environ, imported, ChatRequest_config, cfg>>
rvars == <<raw, message_out, function_call_out>>
fvars == <<fpc, tasks, awaited, documents, collection, flow_log>>
vars == <<svars, rvars, fvars>>

(***************************************************************************)
(* Python values.  Every value is a record tagged with its type, so that   *)
(* None, a plain str and a SecretStr holding the same text are different   *)
(* values.                                                                 *)
(***************************************************************************)
None == [t |-> "None"]
Str(s) == [t |-> "str", v |-> s]
PyInt(n) == [t |-> "int", v |-> n]
SecretStr(s) == [t |-> "SecretStr", v |-> s]

\* bool(x): None is falsy; str and SecretStr are falsy when empty (both
\* define __len__), everything else is truthy.
Truthy(x) ==
    CASE x.t = "None" -> FALSE
      [] x.t \in {"str", "SecretStr"} -> x.v # ""
      [] OTHER -> TRUE

\* SecretStr.get_secret_value()
get_secret_value(x) == x.v

\* repr()/str() of one field value: a SecretStr shows a mask (nothing when it
\* is empty), every other value shows itself.
ReprValue(x) ==
    CASE x.t = "None" -> "None"
      [] x.t = "SecretStr" -> IF x.v = "" THEN "" ELSE "**********"
      [] x.t = "str" -> x.v
      [] OTHER -> "<number>"

(***************************************************************************)
(* The settings class: its fields and their defaults.                      *)
(* temperature is kept in tenths (0.8 -> 8), request_timeout in seconds.   *)
(***************************************************************************)
DefaultMaxTokens == 1500
DefaultTemperatureTenths == 8
DefaultRequestTimeout == 600

TuningFields == {"max_tokens", "temperature", "request_timeout"}
Fields == {"api_key", "api_base"} \cup TuningFields

Required == [t |-> "Required"]

\* Mutant of FieldDefaults: api_key declared without a default (Field(...)).
FieldDefaultsKeyRequired ==
    [api_key |-> Required,
     api_base |-> None,
     max_tokens |-> PyInt(DefaultMaxTokens),
     temperature |-> PyInt(DefaultTemperatureTenths),
     request_timeout |-> PyInt(DefaultRequestTimeout)]

FieldDefaults ==
    [api_key |-> None,
     api_base |-> None,
     max_tokens |-> PyInt(DefaultMaxTokens),
     temperature |-> PyInt(DefaultTemperatureTenths),
     request_timeout |-> PyInt(DefaultRequestTimeout)]

\* Environment variable that feeds a field ("" when the model tracks none).
FieldEnv(k) == IF k = "api_key" THEN "MARVIN_AZURE_OPENAI_API_KEY" ELSE ""

\* Mutant of CoerceField: api_key annotated str, so no value gets wrapped.
CoerceFieldPlain(k, x) == x

\* Validation of one field value against its annotation: api_key is a
\* SecretStr, so a plain str is wrapped; other values pass through.
CoerceField(k, x) ==
    IF k = "api_key" /\ x.t = "str" THEN SecretStr(x.v) ELSE x

\* A field whose default is not None does not accept None.
AllowsNone(k) == FieldDefaults[k] \in {None, Required}

\* os.environ.get(name, None)
environ_get(env, name) == env[name]

(***************************************************************************)
(* BaseSettings.__init__ with keyword values: per field, the keyword, else *)
(* the environment variable, else the default; then validation.            *)
(***************************************************************************)
FieldSource(values, env, k) ==
    IF k \in DOMAIN values THEN values[k]
    ELSE IF FieldEnv(k) # "" /\ environ_get(env, FieldEnv(k)) # None
         THEN environ_get(env, FieldEnv(k))
         ELSE FieldDefaults[k]

BaseSettingsInit(values, env) ==
    LET src == [k \in Fields |-> FieldSource(values, env, k)]
        bad == {k \in Fields : \/ src[k] = Required
                               \/ (src[k] = None /\ ~AllowsNone(k))}
    IN  IF bad # {}
        THEN [raised |-> "ValidationError", self |-> None]
        ELSE [raised |-> "", self |-> [k \in Fields |-> CoerceField(k, src[k])]]

\* self.api_key = value on a constructed settings object: the assignment is
\* validated like a constructor argument (the base class's Config).
SetApiKey(self, value) == [self EXCEPT !.api_key = CoerceField("api_key", value)]

(***************************************************************************)
(* ChatCompletionSettings.__init__                                         *)
(***************************************************************************)
\* {k: v for (k, v) in model_dump(settings.azure_openai).items()
\*        if k in self.__fields__ and v is not None}
ProviderDefaults(s) ==
    LET keep == {k \in DOMAIN s.azure_openai \cap Fields : s.azure_openai[k] # None}
    IN  [k \in keep |-> s.azure_openai[k]]

\* d with d[k] = v
DictSet(d, k, v) == [j \in DOMAIN d \cup {k} |-> IF j = k THEN v ELSE d[j]]

\* Mutant of MergeDicts: {**kwargs, **defaults}.
MergeDictsSwapped(defaults, kwargs) ==
    [k \in DOMAIN defaults \cup DOMAIN kwargs |->
        IF k \in DOMAIN defaults THEN defaults[k] ELSE kwargs[k]]

\* {**defaults, **kwargs}
MergeDicts(defaults, kwargs) ==
    [k \in DOMAIN defaults \cup DOMAIN kwargs |->
        IF k \in DOMAIN kwargs THEN kwargs[k] ELSE defaults[k]]

World(s, o, e) == [settings |-> s, openai_api_key |-> o, environ |-> e]

\* The key fallback chain of the first definition.
KeyChainFirst(self, w) ==
    IF Truthy(environ_get(w.environ, "MARVIN_AZURE_OPENAI_API_KEY"))
    THEN SetApiKey(self, environ_get(w.environ, "MARVIN_AZURE_OPENAI_API_KEY"))
    ELSE IF Truthy(environ_get(w.environ, "OPENAI_API_KEY"))
    THEN SetApiKey(self, environ_get(w.environ, "OPENAI_API_KEY"))
    ELSE IF Truthy(w.openai_api_key)
    THEN SetApiKey(self, w.openai_api_key)
    ELSE IF Truthy(w.settings.openai.api_key)
    THEN SetApiKey(self, Str(get_secret_value(w.settings.openai.api_key)))
    ELSE self

\* The first def __init__ of the class body.
InitFirst(kwargs, w) ==
    LET d0 == ProviderDefaults(w.settings)
        d1 == DictSet(d0, "max_tokens", w.settings.llm_max_tokens)
        d2 == DictSet(d1, "temperature", w.settings.llm_temperature)
        d3 == DictSet(d2, "request_timeout", w.settings.llm_request_timeout_seconds)
        base == BaseSettingsInit(MergeDicts(d3, kwargs), w.environ)
        runs == Truthy(w.openai_api_key) \/ Truthy(w.settings.azure_openai.api_key)
    IN  IF base.raised # ""
        THEN [raised |-> base.raised, self |-> None, fallback |-> FALSE, world |-> w]
        ELSE [raised |-> "",
              self |-> IF runs THEN KeyChainFirst(base.self, w) ELSE base.self,
              fallback |-> runs,
              world |-> w]

\* Mutant of KeyFallbackSecond: the assignment of line 88 written the other
\* way round, openai.api_key = self.api_key.
KeyFallbackSecondReversed(self, w) ==
    IF Truthy(w.openai_api_key) /\ ~Truthy(self.api_key)
    THEN [self |-> self, fallback |-> TRUE,
          world |-> [w EXCEPT !.openai_api_key = self.api_key]]
    ELSE [self |-> self, fallback |-> FALSE, world |-> w]

\* if openai.api_key and not self.api_key: self.api_key = openai.api_key
KeyFallbackSecond(self, w) ==
    IF Truthy(w.openai_api_key) /\ ~Truthy(self.api_key)
    THEN [self |-> SetApiKey(self, w.openai_api_key), fallback |-> TRUE, world |-> w]
    ELSE [self |-> self, fallback |-> FALSE, world |-> w]

\* The second def __init__ of the class body.
InitSecond(kwargs, w) ==
    LET base == BaseSettingsInit(MergeDicts(ProviderDefaults(w.settings), kwargs),
                                 w.environ)
        fb == KeyFallbackSecond(base.self, w)
    IN  IF base.raised # ""
        THEN [raised |-> base.raised, self |-> None, fallback |-> FALSE, world |-> w]
        ELSE [raised |-> "", self |-> fb.self, fallback |-> fb.fallback,
              world |-> fb.world]

\* A class body is executed top to bottom and the name __init__ is bound to
\* the definition executed last: of the two, the second.
BoundInit == 2

ChatCompletionSettings(kwargs, w) ==
    IF BoundInit = 1 THEN InitFirst(kwargs, w) ELSE InitSecond(kwargs, w)

\* repr(settings): the rendering of every field.
Render(self) == {ReprValue(self[k]) : k \in Fields}

(***************************************************************************)
(* Configuration sources the constructor can meet.                         *)
(***************************************************************************)
AzureSections ==
    [api_key : {None, SecretStr("S")},
     api_base : {None, Str("https://sub")},
     max_tokens : {None, PyInt(3000)},
     temperature : {None, PyInt(3)},
     request_timeout : {None, PyInt(30)}]

SettingsSet ==
    [azure_openai : AzureSections,
     openai : [api_key : {None, SecretStr("W")}],
     llm_max_tokens : {None, PyInt(2000)},
     llm_temperature : {None, PyInt(2)},
     llm_request_timeout_seconds : {None, PyInt(20)},
     html_parsing_fn : {None},
     keyword_extraction_fn : {None}]

EnvironSet ==
    [MARVIN_AZURE_OPENAI_API_KEY : {None, Str("X")},
     OPENAI_API_KEY : {None, Str("Y")}]

OpenAIKeys == {None, Str("Z")}

\* Keyword arguments a caller may pass, per field.
KwValues(k) ==
    CASE k = "api_key" -> {Str(""), Str("K")}
      [] k = "api_base" -> {Str(""), Str("https://x")}
      [] k = "max_tokens" -> {PyInt(100)}
      [] k = "temperature" -> {PyInt(1)}
      [] k = "request_timeout" -> {PyInt(10)}

KwargsOver(D) ==
    {f \in [D -> UNION {KwValues(k) : k \in Fields}] : \A k \in D : f[k] \in KwValues(k)}

KwargsSet == UNION {KwargsOver(D) : D \in SUBSET Fields}

NoObj == [t |-> "NoObj"]

world == World(settings, openai_api_key, environ)

ResponseIdle ==
    /\ raw = NoObj
    /\ message_out = NoObj
    /\ function_call_out = NoObj

FlowIdle ==
    /\ fpc = "idle"
    /\ tasks = <<>>
    /\ awaited = 0
    /\ documents = {}
    /\ collection = {}
    /\ flow_log = <<>>

Init ==
    /\ settings \in SettingsSet
    /\ openai_api_key \in OpenAIKeys
    /\ environ \in EnvironSet
    /\ imported = FALSE
    /\ ChatRequest_config = NoObj
    /\ cfg = NoObj
    /\ ResponseIdle
    /\ FlowIdle

\* One call of the constructor: the arguments, the outcome, and the
\* configuration sources as the call leaves them.
Call(kwargs, w) ==
    LET r == ChatCompletionSettings(kwargs, w)
    IN  [t |-> "call", kwargs |-> kwargs, raised |-> r.raised, self |-> r.self,
         fallback |-> r.fallback, world |-> r.world]

SetWorld(w) ==
    /\ settings' = w.settings
    /\ openai_api_key' = w.openai_api_key
    /\ environ' = w.environ

\* class ChatRequest: _config = ChatCompletionSettings(), run when the module
\* is imported.
ImportModule ==
    /\ ~imported
    /\ imported' = TRUE
    /\ LET c == Call(<<>>, world)
       IN  /\ ChatRequest_config' = c
           /\ SetWorld(c.world)
    /\ UNCHANGED <<cfg, rvars, fvars>>

\* A caller constructs ChatCompletionSettings(**kwargs).
Construct ==
    /\ imported
    /\ cfg = NoObj
    /\ \E kwargs \in KwargsSet :
          LET c == Call(kwargs, world)
          IN  /\ cfg' = c
              /\ SetWorld(c.world)
    /\ UNCHANGED <<imported, ChatRequest_config, rvars, fvars>>

\* The session that owns the settings object ends and the object is dropped.
Discard ==
    /\ cfg # NoObj
    /\ cfg' = NoObj
    /\ UNCHANGED <<settings, openai_api_key, environ, imported, ChatRequest_config,
                   rvars, fvars>>

Next == ImportModule \/ Construct \/ Discard

Spec == Init /\ [][Next]_vars

(***************************************************************************)
(* ChatResponse.  An object is a record whose domain is the set of         *)
(* attributes it carries: reading an attribute outside the domain raises   *)
(* AttributeError, as obj.attr does on the vendor's response objects.      *)
(***************************************************************************)
MaxChoices == 3

Return(x) == [kind |-> "return", value |-> x]
Raise(e) == [kind |-> "raise", exc |-> e]
PyList(items) == [t |-> "list", items |-> items]

FunctionCalls == {[t |-> "FunctionCall", name |-> "f"]}

Messages ==
    [t : {"Message"}, content : {"a", "b"}]
    \cup [t : {"Message"}, content : {"a", "b"}, function_call : {None} \cup FunctionCalls]

Choices == [t : {"Choice"}] \cup [t : {"Choice"}, message : Messages]

RawResponses ==
    {[t |-> "Response"]}
    \cup {[t |-> "Response", choices |-> cs] :
            cs \in UNION {[1..n -> Choices] : n \in 0..MaxChoices}}

HasAttr(obj, name) == name \in DOMAIN obj

\* isinstance(x, list)
IsList(x) == x.t = "list"

\* Mutant of message: the one-choice branch dropped, a list in every case.
messageAlwaysList(r) ==
    IF ~HasAttr(r, "choices") THEN Raise("AttributeError")
    ELSE IF \E i \in 1..Len(r.choices) : ~HasAttr(r.choices[i], "message")
         THEN Raise("AttributeError")
         ELSE Return(PyList([i \in 1..Len(r.choices) |-> r.choices[i].message]))

\* Mutant of message: "at most one choice" takes the first choice.
messageFirstOfFew(r) ==
    IF ~HasAttr(r, "choices") THEN Raise("AttributeError")
    ELSE IF Len(r.choices) = 0 THEN Raise("StopIteration")
    ELSE IF Len(r.choices) = 1
         THEN IF HasAttr(r.choices[1], "message")
              THEN Return(r.choices[1].message)
              ELSE Raise("AttributeError")
         ELSE IF \E i \in 1..Len(r.choices) : ~HasAttr(r.choices[i], "message")
              THEN Raise("AttributeError")
              ELSE Return(PyList([i \in 1..Len(r.choices) |-> r.choices[i].message]))

\* ChatResponse.message
message(r) ==
    IF ~HasAttr(r, "choices") THEN Raise("AttributeError")
    ELSE IF Len(r.choices) = 1
         THEN IF HasAttr(r.choices[1], "message")
              THEN Return(r.choices[1].message)
              ELSE Raise("AttributeError")
         ELSE IF \E i \in 1..Len(r.choices) : ~HasAttr(r.choices[i], "message")
              THEN Raise("AttributeError")
              ELSE Return(PyList([i \in 1..Len(r.choices) |-> r.choices[i].message]))

\* ChatResponse.function_call()
function_call(r) ==
    LET m == message(r)
    IN  IF m.kind = "raise" THEN m
        ELSE IF IsList(m.value)
             THEN IF \E i \in 1..Len(m.value.items) :
                        ~HasAttr(m.value.items[i], "function_call")
                  THEN Raise("AttributeError")
                  ELSE Return(PyList([i \in 1..Len(m.value.items) |->
                                         m.value.items[i].function_call]))
             ELSE Return(IF HasAttr(m.value, "function_call")
                         THEN m.value.function_call
                         ELSE None)

SettingsIdle ==
    /\ settings \in {s \in SettingsSet :
                        /\ \A k \in DOMAIN s.azure_openai : s.azure_openai[k] = None
                        /\ s.openai.api_key = None
                        /\ s.llm_max_tokens # None
                        /\ s.llm_temperature # None
                        /\ s.llm_request_timeout_seconds # None}
    /\ openai_api_key = None
    /\ environ \in {e \in EnvironSet : \A k \in DOMAIN e : e[k] = None}
    /\ imported = FALSE
    /\ ChatRequest_config = NoObj
    /\ cfg = NoObj

InitResponse ==
    /\ raw \in RawResponses
    /\ message_out = NoObj
    /\ function_call_out = NoObj
    /\ SettingsIdle
    /\ FlowIdle

\* A caller reads response.message.
ReadMessage ==
    /\ message_out = NoObj
    /\ message_out' = message(raw)
    /\ UNCHANGED <<raw, function_call_out, svars, fvars>>

\* A caller calls response.function_call().
CallFunctionCall ==
    /\ function_call_out = NoObj
    /\ function_call_out' = function_call(raw)
    /\ UNCHANGED <<raw, message_out, svars, fvars>>

NextResponse == ReadMessage \/ CallFunctionCall

SpecResponse == InitResponse /\ [][NextResponse]_vars

(***************************************************************************)
(* The update_marvin_knowledge flow.  run_loader.map submits one task run  *)
(* per loader; the task runs proceed concurrently with the flow, which     *)
(* takes each future's result in list order.                               *)
(***************************************************************************)
NumLoaders == 6
Retries == 1

Loaders == 1..NumLoaders
OldCollection == {"old"}

\* The documents loader i yields (its excerpts).
LoaderDocs(i) == {<<"doc", i>>}

\* Mutant of ResultsGathered: the collection is opened without waiting for
\* the futures' results.
ResultsGatheredNoWait == awaited >= 0

\* The comprehension over the futures has taken every result.
ResultsGathered == awaited = NumLoaders

InitFlow ==
    /\ fpc = "start"
    /\ tasks = <<>>
    /\ awaited = 0
    /\ documents = {}
    /\ collection = OldCollection
    /\ flow_log = <<>>
    /\ SettingsIdle
    /\ ResponseIdle

\* forward_logger_to_prefect(...); the two parsing functions are installed
\* on marvin.settings.
FlowConfigure ==
    /\ fpc = "start"
    /\ settings' = [settings EXCEPT !.html_parsing_fn = Str("html_parser_fn"),
                                    !.keyword_extraction_fn = Str("keyword_extraction_fn")]
    /\ fpc' = "map"
    /\ UNCHANGED <<openai_api_key, environ, imported, ChatRequest_config, cfg,
                   rvars, tasks, awaited, documents, collection, flow_log>>

\* await run_loader.map(quote(prefect_loaders)): one task run per loader.
FlowMap ==
    /\ fpc = "map"
    /\ tasks' = [i \in Loaders |-> [state |-> "Pending", run_count |-> 0]]
    /\ fpc' = "gather"
    /\ UNCHANGED <<svars, rvars, awaited, documents, collection, flow_log>>

\* A task run starts: a cached result completes it at once, otherwise the
\* loader runs.
TaskStart(i) ==
    /\ i \in DOMAIN tasks
    /\ tasks[i].state = "Pending"
    /\ \/ tasks' = [tasks EXCEPT ![i].state = "Completed"]
       \/ tasks' = [tasks EXCEPT ![i] = [state |-> "Running", run_count |-> 1]]
    /\ UNCHANGED <<svars, rvars, fpc, awaited, documents, collection, flow_log>>

\* run_loader returns its list of excerpts.
TaskSucceed(i) ==
    /\ i \in DOMAIN tasks
    /\ tasks[i].state = "Running"
    /\ tasks' = [tasks EXCEPT ![i].state = "Completed"]
    /\ UNCHANGED <<svars, rvars, fpc, awaited, documents, collection, flow_log>>

\* run_loader raises: the run is retried while retries are left, else it
\* fails.
TaskRaise(i) ==
    /\ i \in DOMAIN tasks
    /\ tasks[i].state = "Running"
    /\ IF tasks[i].run_count <= Retries
       THEN tasks' = [tasks EXCEPT ![i].run_count = @ + 1]
       ELSE tasks' = [tasks EXCEPT ![i].state = "Failed"]
    /\ UNCHANGED <<svars, rvars, fpc, awaited, documents, collection, flow_log>>

\* await future.result() of the next future: its documents join the list.
FlowResult ==
    /\ fpc = "gather"
    /\ awaited < NumLoaders
    /\ tasks[awaited + 1].state = "Completed"
    /\ documents' = documents \cup LoaderDocs(awaited + 1)
    /\ awaited' = awaited + 1
    /\ UNCHANGED <<svars, rvars, fpc, tasks, collection, flow_log>>

\* await future.result() of a failed task run raises: the flow ends.
FlowResultRaises ==
    /\ fpc = "gather"
    /\ awaited < NumLoaders
    /\ tasks[awaited + 1].state = "Failed"
    /\ fpc' = "failed"
    /\ UNCHANGED <<svars, rvars, tasks, awaited, documents, collection, flow_log>>

\* async with Chroma(collection_name) as chroma
FlowEnterChroma ==
    /\ fpc = "gather"
    /\ ResultsGathered
    /\ fpc' = "delete"
    /\ UNCHANGED <<svars, rvars, tasks, awaited, documents, collection, flow_log>>

\* await chroma.delete(): the collection is wiped, or the call raises and
\* leaves it as it is.
FlowDelete ==
    /\ fpc = "delete"
    /\ \/ /\ collection' = {}
          /\ flow_log' = Append(flow_log, "delete")
          /\ fpc' = "add"
       \/ /\ fpc' = "failed"
          /\ UNCHANGED <<collection, flow_log>>
    /\ UNCHANGED <<svars, rvars, tasks, awaited, documents>>

\* n_docs = await chroma.add(documents): the documents are stored, or the
\* call raises.
FlowAdd ==
    /\ fpc = "add"
    /\ flow_log' = Append(flow_log, "add")
    /\ \/ /\ collection' = collection \cup documents
          /\ fpc' = "print"
       \/ /\ fpc' = "failed"
          /\ UNCHANGED collection
    /\ UNCHANGED <<svars, rvars, tasks, awaited, documents>>

\* print(...) and the exit of the async with block.
FlowPrint ==
    /\ fpc = "print"
    /\ fpc' = "done"
    /\ UNCHANGED <<svars, rvars, tasks, awaited, documents, collection, flow_log>>

NextFlow ==
    \/ FlowConfigure
    \/ FlowMap
    \/ \E i \in Loaders : TaskStart(i)
    \/ \E i \in Loaders : TaskSucceed(i)
    \/ \E i \in Loaders : TaskRaise(i)
    \/ FlowResult
    \/ FlowResultRaises
    \/ FlowEnterChroma
    \/ FlowDelete
    \/ FlowAdd
    \/ FlowPrint

SpecFlow == InitFlow /\ [][NextFlow]_vars

(***************************************************************************)
(* Properties of the configuration resolution (specification Spec).        *)
(***************************************************************************)
\* The constructor calls made so far.
Calls == {c \in {ChatRequest_config, cfg} : c.t = "call"}

\* Calls that returned a settings object.
Built == {c \in Calls : c.raised = ""}

GlobalTuning(k) ==
    CASE k = "max_tokens" -> settings.llm_max_tokens
      [] k = "temperature" -> settings.llm_temperature
      [] k = "request_timeout" -> settings.llm_request_timeout_seconds

\* The value the four-layer precedence order assigns to tuning field k.
Layered(c, k) ==
    IF k \in DOMAIN c.kwargs THEN c.kwargs[k]
    ELSE IF GlobalTuning(k) # None THEN GlobalTuning(k)
    ELSE IF settings.azure_openai[k] # None THEN settings.azure_openai[k]
    ELSE FieldDefaults[k]

\* C1: each of max_tokens, temperature and request_timeout of a constructed
\* settings object equals the value of the highest layer that supplies it:
\* keyword argument, then global llm_* value, then the azure_openai
\* sub-section, then the field default.
C1_GlobalTuningPrecedence ==
    \A c \in Built : \A k \in TuningFields : c.self[k] = Layered(c, k)

\* The sources of the key fallback chain, in its order.
KeyChain ==
    <<environ.MARVIN_AZURE_OPENAI_API_KEY, environ.OPENAI_API_KEY,
      openai_api_key, settings.openai.api_key>>

FirstNonEmpty(seq) ==
    LET hits == {i \in 1..Len(seq) : Truthy(seq[i])}
    IN  IF hits = {} THEN None
        ELSE seq[CHOOSE i \in hits : \A j \in hits : i <= j]

\* C2: when the key fallback runs in the constructor, the resolved api_key
\* is the first non-empty of MARVIN_AZURE_OPENAI_API_KEY, OPENAI_API_KEY, the
\* global client's key and settings.openai.api_key.
C2_FallbackChainOrder ==
    \A c \in Built :
        (c.fallback /\ FirstNonEmpty(KeyChain) # None) =>
            /\ c.self.api_key # None
            /\ get_secret_value(c.self.api_key) = FirstNonEmpty(KeyChain).v

ReadsBack(c) ==
    /\ c.self.api_base = c.kwargs.api_base
    /\ c.self.api_key # None
    /\ get_secret_value(c.self.api_key) = c.kwargs.api_key.v

\* C3 as stated: for any b and k, ChatCompletionSettings(api_base=b,
\* api_key=k) reads back b and k whatever the other sources hold.
C3_ExplicitOverridesSurvive ==
    \A c \in Built :
        {"api_base", "api_key"} \subseteq DOMAIN c.kwargs => ReadsBack(c)

\* C3 amended: for any b and any non-empty k, ChatCompletionSettings(
\* api_base=b, api_key=k) reads back b and k whatever the other sources hold.
C3_NonEmptyOverridesSurvive ==
    \A c \in Built :
        ({"api_base", "api_key"} \subseteq DOMAIN c.kwargs /\ Truthy(c.kwargs.api_key))
            => ReadsBack(c)

\* An explicit key survived although every other source offers its own.
C3_Witness ==
    /\ cfg.t = "call"
    /\ cfg.raised = ""
    /\ {"api_base", "api_key"} \subseteq DOMAIN cfg.kwargs
    /\ cfg.kwargs.api_key = Str("K")
    /\ settings.azure_openai.api_key # None
    /\ settings.azure_openai.api_base # None
    /\ \A i \in 1..Len(KeyChain) : Truthy(KeyChain[i])
    /\ cfg.self.api_key = SecretStr("K")
    /\ cfg.self.api_base = Str("https://x")

\* No source offers a key to call c.
NoKeyAnywhere(c) ==
    /\ "api_key" \notin DOMAIN c.kwargs
    /\ settings.azure_openai.api_key = None
    /\ \A i \in 1..Len(KeyChain) : KeyChain[i] = None

\* C4 as stated: with no key available from any source the constructor
\* fails with a ConfigurationError and returns no settings object.
C4_NoKeyRaisesConfigurationError ==
    \A c \in Calls : NoKeyAnywhere(c) => c.raised = "ConfigurationError"

\* C4 amended: with no key available from any source the constructor raises
\* nothing and returns a settings object whose api_key is None.
C4_NoKeyLeavesKeyUnset ==
    \A c \in Calls : NoKeyAnywhere(c) => (c.raised = "" /\ c.self.api_key = None)

\* A call with keyword arguments but no key anywhere has returned.
C4_Witness ==
    /\ cfg.t = "call"
    /\ NoKeyAnywhere(cfg)
    /\ "api_base" \in DOMAIN cfg.kwargs
    /\ cfg.raised = ""
    /\ cfg.self.api_key = None

C9_ConstructionOnlyReads ==
    [][(\/ (cfg.t # "call" /\ cfg'.t = "call")
        \/ (ChatRequest_config.t # "call" /\ ChatRequest_config'.t = "call"))
       => (settings' = settings /\ openai_api_key' = openai_api_key
           /\ environ' = environ)]_vars

\* Two constructions have run, the later one assigning the fallback key, and
\* every source still holds a value.
C9_Witness ==
    /\ ChatRequest_config.t = "call"
    /\ cfg.t = "call"
    /\ cfg.fallback
    /\ cfg.world = world
    /\ openai_api_key = Str("Z")
    /\ settings.llm_max_tokens # None
    /\ environ.OPENAI_API_KEY # None

(***************************************************************************)
(* Properties of the response normalisation (specification SpecResponse).  *)
(***************************************************************************)
WellShaped(r) ==
    /\ HasAttr(r, "choices")
    /\ \A i \in 1..Len(r.choices) : HasAttr(r.choices[i], "message")

\* The function-call payload of message m, None when it has none.
PayloadOrNone(m) == IF HasAttr(m, "function_call") THEN m.function_call ELSE None

\* C5: with exactly one choice, message is that choice's message object, not
\* a list, and function_call() is its payload, or None when it has none.
C5_SingleChoice ==
    (WellShaped(raw) /\ Len(raw.choices) = 1) =>
        /\ message_out # NoObj =>
              /\ message_out = Return(raw.choices[1].message)
              /\ ~IsList(message_out.value)
        /\ function_call_out # NoObj =>
              function_call_out = Return(PayloadOrNone(raw.choices[1].message))

\* One choice whose message has no function call: both accessors evaluated.
C5_Witness ==
    /\ WellShaped(raw)
    /\ Len(raw.choices) = 1
    /\ ~HasAttr(raw.choices[1].message, "function_call")
    /\ message_out = Return(raw.choices[1].message)
    /\ function_call_out = Return(None)

\* C6: with n >= 2 choices, message is the list of the n messages in order
\* and function_call() is the list of the n payloads, None where a message
\* has no function call.
C6_ManyChoices ==
    (WellShaped(raw) /\ Len(raw.choices) >= 2) =>
        /\ message_out # NoObj =>
              message_out = Return(PyList([i \in 1..Len(raw.choices) |->
                                              raw.choices[i].message]))
        /\ function_call_out # NoObj =>
              function_call_out = Return(PyList([i \in 1..Len(raw.choices) |->
                                          PayloadOrNone(raw.choices[i].message)]))

Evaluated == {o \in {message_out, function_call_out} : o # NoObj}

\* C8 as stated: when the response lacks the expected shape or has no
\* choice, message and function_call() raise NormalizationError.
C8_BadShapeRaisesNormalizationError ==
    (raw # NoObj /\ (~WellShaped(raw) \/ Len(raw.choices) = 0)) =>
        \A o \in Evaluated : o = Raise("NormalizationError")

\* C8 amended: a response with zero choices yields an empty list from
\* message and from function_call(); a response without a choices list, or
\* with a choice that carries no message, raises AttributeError.
C8_BadShapeOutcome ==
    raw # NoObj =>
        /\ (WellShaped(raw) /\ Len(raw.choices) = 0) =>
              \A o \in Evaluated : o = Return(PyList(<<>>))
        /\ ~WellShaped(raw) => \A o \in Evaluated : o = Raise("AttributeError")

\* Zero choices: both accessors returned the empty list.
C8_Witness ==
    /\ raw # NoObj
    /\ WellShaped(raw)
    /\ Len(raw.choices) = 0
    /\ message_out = Return(PyList(<<>>))
    /\ function_call_out = Return(PyList(<<>>))

(***************************************************************************)
(* Properties of the flow (specification SpecFlow).                        *)
(***************************************************************************)
AllDocs == UNION {LoaderDocs(i) : i \in Loaders}

\* C10: the collection is wiped only after every loader task has returned
\* its result, the add follows the wipe, a failed loader task leaves the
\* collection untouched, and once wiped the flow's next call is the add.
C10_WipeAfterResultsThenAdd ==
    /\ flow_log \in {<<>>, <<"delete">>, <<"delete", "add">>}
    /\ flow_log # <<>> =>
          /\ awaited = NumLoaders
          /\ \A i \in Loaders : tasks[i].state = "Completed"
          /\ documents = AllDocs
    /\ (\E i \in DOMAIN tasks : tasks[i].state = "Failed") =>
          /\ fpc \in {"gather", "failed"}
          /\ flow_log = <<>>
          /\ collection = OldCollection
    /\ (flow_log # <<>> /\ fpc # "add") => flow_log = <<"delete", "add">>
    /\ flow_log = <<>> => collection = OldCollection

\* The flow ran to its end: wiped, then added every loader's documents.
C10_Witness ==
    /\ fpc = "done"
    /\ flow_log = <<"delete", "add">>
    /\ collection = AllDocs

====
